---- MODULE Spec2Model ----
(***************************************************************************)
(* Model of blogger_news_poster.py: the scrape -> dedup -> publish ->      *)
(* retry -> log/digest pipeline of main(), with the file helpers           *)
(* (update_log, update_news_md, format_news_to_markdown), the Publisher    *)
(* (post_to_blogger) and the Retry Coordinator (retry_failed_posts).       *)
(*                                                                         *)
(* Strings are sequences of tokens.  A token is a TLA+ string standing for *)
(* one character ("\n", " ") or for an indivisible run of characters (a    *)
(* word, a marker, a piece of fixed markup).                               *)
(***************************************************************************)
EXTENDS Integers, Sequences, FiniteSets, TLC

\* ------------------------------------------------------------------------
\* Bounds of the model
\* ------------------------------------------------------------------------
MaxRuns == 2

MaxListing == 2

MaxDocLen == 4

\* the most characters an oversized text is above or below the size limit
MaxOver == 12

\* ------------------------------------------------------------------------
\* Program constants
\* ------------------------------------------------------------------------
max_retries == 3

NL == "\n"

SP == " "

STATIC_START == "<!-- STATIC-START -->"

STATIC_END == "<!-- STATIC-END -->"

None == <<>>

Whitespace == {NL, SP}

\* ------------------------------------------------------------------------
\* String helpers (Python str methods on token sequences)
\* ------------------------------------------------------------------------
Range(s) == {s[k] : k \in 1..Len(s)}

\* str.lstrip()
RECURSIVE LStrip(_)
LStrip(s) ==
    IF s = <<>> THEN <<>>
    ELSE IF Head(s) \in Whitespace THEN LStrip(Tail(s)) ELSE s

\* str.rstrip()
RECURSIVE RStrip(_)
RStrip(s) ==
    IF s = <<>> THEN <<>>
    ELSE IF s[Len(s)] \in Whitespace THEN RStrip(SubSeq(s, 1, Len(s) - 1)) ELSE s

\* str.strip()
Strip(s) == RStrip(LStrip(s))

\* s.startswith(sep)
StartsWith(s, sep) == Len(sep) <= Len(s) /\ SubSeq(s, 1, Len(sep)) = sep

\* sep in s
Contains(s, sep) == \E k \in 0..(Len(s) - Len(sep)) : SubSeq(s, k + 1, k + Len(sep)) = sep

\* s.split(sep): the pieces between the non-overlapping occurrences of sep,
\* found left to right; cur is the piece being collected.
RECURSIVE SplitFrom(_, _, _)
SplitFrom(s, sep, cur) ==
    IF s = <<>> THEN <<cur>>
    ELSE IF StartsWith(s, sep)
         THEN <<cur>> \o SplitFrom(SubSeq(s, Len(sep) + 1, Len(s)), sep, <<>>)
         ELSE SplitFrom(Tail(s), sep, Append(cur, Head(s)))

Split(s, sep) == SplitFrom(s, sep, <<>>)

\* s.replace('\n', '\n\n')
RECURSIVE DoubleNewlines(_)
DoubleNewlines(s) ==
    IF s = <<>> THEN <<>>
    ELSE (IF Head(s) = NL THEN <<NL, NL>> ELSE <<Head(s)>>) \o DoubleNewlines(Tail(s))

\* datetime.strptime(date, "%d %m %Y %H:%M:%S").strftime("%B %d, %Y, %I:%M %p"),
\* the raw string when it does not parse
ParsableDate == "07 03 2025 14:30:00"

FormatDate(date) == IF date = ParsableDate THEN "March 07, 2025, 02:30 PM" ELSE date

\* ------------------------------------------------------------------------
\* Scraped items (fetch_news): the articles the listing page can show
\* ------------------------------------------------------------------------
ItemA == [link |-> "u1", title |-> <<"a">>, date |-> ParsableDate,
          image_url |-> <<"img1">>, full_content |-> <<"w1">>]

\* same title as ItemA under another url; unparsable date; two paragraphs
ItemB == [link |-> "u2", title |-> <<"a">>, date |-> "2 hours ago",
          image_url |-> None, full_content |-> <<"w1", NL, NL, "w2">>]

\* same url as ItemA under another title; article fetch failed (empty body)
ItemC == [link |-> "u1", title |-> <<"b">>, date |-> ParsableDate,
          image_url |-> None, full_content |-> <<>>]

\* whitespace-only title
ItemD == [link |-> "u3", title |-> <<SP>>, date |-> "2 hours ago",
          image_url |-> None, full_content |-> <<"Full content not found.">>]

Universe == {ItemA, ItemB, ItemC, ItemD}

\* the sequences over S of length at most n
RECURSIVE SeqsUpTo(_, _)
SeqsUpTo(S, n) ==
    IF n = 0 THEN {<<>>}
    ELSE LET shorter == SeqsUpTo(S, n - 1)
         IN  shorter \cup {Append(q, x) : q \in shorter, x \in S}

\* the order the articles were published in
SiteOrder == <<ItemA, ItemB, ItemC, ItemD>>

Pos(n) == CHOOSE k \in 1..Len(SiteOrder) : SiteOrder[k] = n

Ascending(q) == \A k \in 1..(Len(q) - 1) : Pos(q[k]) < Pos(q[k + 1])

Descending(q) == \A k \in 1..(Len(q) - 1) : Pos(q[k]) > Pos(q[k + 1])

\* what the listing page can show: at most MaxListing distinct articles,
\* oldest first or newest first
Listings == {q \in SeqsUpTo(Universe, MaxListing) : Ascending(q) \/ Descending(q)}

\* ------------------------------------------------------------------------
\* Deduplication ledger (news_log.json)
\* ------------------------------------------------------------------------
\* (mutant) the duplicate test with the title comparison left out
IsLogged_UrlOnly(news, logged) ==
    \E k \in 1..Len(logged) : logged[k].url = news.link

\* (mutant) the duplicate test asking for the same url and the same title
IsLogged_Both(news, logged) ==
    \E k \in 1..Len(logged) : logged[k].url = news.link /\ logged[k].title = news.title

\* the duplicate test of main()'s filter: a logged post with the same url
\* or the same title
IsLogged(news, logged) ==
    \E k \in 1..Len(logged) : logged[k].url = news.link \/ logged[k].title = news.title

\* (mutant) the filter also dropping an item that has the url or the title
\* of an earlier item of the same listing
FilterNew_WithinListing(items, logged) ==
    LET Kept[k \in 0..Len(items)] ==
            IF k = 0 THEN <<>>
            ELSE IF /\ ~IsLogged(items[k], logged)
                    /\ \A m \in 1..(k - 1) : /\ items[m].link # items[k].link
                                              /\ items[m].title # items[k].title
                 THEN Append(Kept[k - 1], items[k])
                 ELSE Kept[k - 1]
    IN  Kept[Len(items)]

\* main(): new_news = the fetched items without a duplicate in the log
RECURSIVE FilterNew(_, _)
FilterNew(items, logged) ==
    IF items = <<>> THEN <<>>
    ELSE (IF ~IsLogged(Head(items), logged) THEN <<Head(items)>> ELSE <<>>)
         \o FilterNew(Tail(items), logged)

\* (mutant) update_log comparing urls only
RECURSIVE update_log_UrlOnly(_, _)
update_log_UrlOnly(logged_data, new_posts) ==
    IF new_posts = <<>> THEN logged_data
    ELSE LET post == Head(new_posts)
             dup  == \E k \in 1..Len(logged_data) : logged_data[k].url = post.url
         IN  update_log_UrlOnly(IF dup THEN logged_data ELSE Append(logged_data, post),
                                Tail(new_posts))

\* (mutant) update_log writing the new posts without the data it has read
update_log_Overwrite(logged_data, new_posts) == new_posts

\* update_log(new_posts): logged_data after the loop; each post is compared
\* with the data as extended so far
RECURSIVE update_log(_, _)
update_log(logged_data, new_posts) ==
    IF new_posts = <<>> THEN logged_data
    ELSE LET post == Head(new_posts)
             dup  == \E k \in 1..Len(logged_data) :
                        \/ logged_data[k].url = post.url
                        \/ logged_data[k].title = post.title
         IN  update_log(IF dup THEN logged_data ELSE Append(logged_data, post),
                        Tail(new_posts))

\* ------------------------------------------------------------------------
\* Digest writer (README.md)
\* ------------------------------------------------------------------------
\* one item of format_news_to_markdown
Section(item) ==
    <<NL, NL, "---", NL, NL>>
    \o <<"## ">> \o item.title \o <<NL, NL>>
    \o <<"Published on ", FormatDate(item.date), NL, NL>>
    \o item.full_content
    \o (IF item.image_url # None
        THEN <<NL, NL, "![Image](">> \o item.image_url \o <<")", NL, NL>>
        ELSE <<>>)

RECURSIVE format_news_to_markdown(_)
format_news_to_markdown(news_items) ==
    IF news_items = <<>> THEN <<>>
    ELSE Section(Head(news_items)) \o format_news_to_markdown(Tail(news_items))

\* update_news_md(new_news): the text written to the file, from the text
\* read from it (<<>> when the file does not exist)
update_news_md(content, new_news) ==
    LET marked == Contains(content, <<STATIC_START>>) /\ Contains(content, <<STATIC_END>>)
        static_content ==
            IF marked THEN Split(content, <<STATIC_END>>)[1] \o <<STATIC_END>> ELSE <<>>
        dynamic_content ==
            IF marked THEN Strip(Split(content, <<STATIC_END>>)[2]) ELSE <<>>
    IN  static_content \o <<NL>> \o format_news_to_markdown(new_news) \o <<NL>> \o dynamic_content

\* ------------------------------------------------------------------------
\* Publisher (post_to_blogger)
\* ------------------------------------------------------------------------
content_limit == 1000000

\* What the outside world does during one call: how the credentials are
\* obtained (a valid token on disk, a token refreshed over the network, or
\* none), whether blogs().get succeeds, whether posts().insert succeeds.
Envs == { [creds |-> "valid",     access |-> TRUE,  insert |-> TRUE],
          [creds |-> "refreshed", access |-> TRUE,  insert |-> TRUE],
          [creds |-> "fail",      access |-> TRUE,  insert |-> TRUE],
          [creds |-> "valid",     access |-> FALSE, insert |-> TRUE],
          [creds |-> "valid",     access |-> TRUE,  insert |-> FALSE] }

\* get_blogger_credentials: the network requests it makes
CredentialRequests(env) ==
    IF env.creds = "valid" THEN <<>>
    ELSE IF env.creds = "refreshed" THEN <<"token.refresh">>
    ELSE <<"oauth.flow">>

\* the paragraphs of content.split('\n\n') that are not blank, stripped and wrapped
RECURSIVE Paragraphs(_)
Paragraphs(paras) ==
    IF paras = <<>> THEN <<>>
    ELSE (IF Strip(Head(paras)) # <<>>
          THEN <<"<p>">> \o Strip(Head(paras)) \o <<"</p>">>
          ELSE <<>>)
         \o Paragraphs(Tail(paras))

FormatContent(title, content, image_url) ==
    <<"<div>">>
    \o (IF image_url # None
        THEN <<"<img src=">> \o image_url \o <<" alt=">> \o title \o <<">", "<br>">>
        ELSE <<>>)
    \o Paragraphs(Split(content, <<NL, NL>>))
    \o <<"</div>">>

\* len(): a token stands for one character, except Run(n), which stands for
\* n characters of text without white space or markup
Run(n) == "x*" \o ToString(n)

RunLengths == (content_limit - MaxOver)..(content_limit + MaxOver)

RunTokens == {Run(n) : n \in RunLengths}

Width(token) ==
    IF token \in RunTokens
    THEN CHOOSE n \in RunLengths : Run(n) = token
    ELSE 1

RECURSIVE CharLen(_)
CharLen(s) == IF s = <<>> THEN 0 ELSE Width(Head(s)) + CharLen(Tail(s))

\* s[:n]
RECURSIVE TakeChars(_, _)
TakeChars(s, n) ==
    IF s = <<>> \/ n <= 0 THEN <<>>
    ELSE IF Width(Head(s)) <= n
         THEN <<Head(s)>> \o TakeChars(Tail(s), n - Width(Head(s)))
         ELSE <<Run(n)>>

Truncate_OneShort(formatted_content) ==
    IF CharLen(formatted_content) > content_limit
    THEN TakeChars(formatted_content, content_limit - 1)
    ELSE formatted_content

Truncate(formatted_content) ==
    IF CharLen(formatted_content) > content_limit
    THEN TakeChars(formatted_content, content_limit)
    ELSE formatted_content

\* post_to_blogger(title, content, image_url) under env: the post id it
\* returns is decided by ok (None when FALSE), net are the network requests
\* made, in order, and submitted is the body given to posts().insert.
post_to_blogger(title, content, image_url, env) ==
    LET credreq   == CredentialRequests(env)
        formatted == FormatContent(title, content, image_url)
        failure(net) == [ok |-> FALSE, net |-> net, submitted |-> None]
    IN  IF env.creds = "fail" THEN failure(credreq)
        ELSE IF ~env.access THEN failure(credreq \o <<"blogs.get">>)
        ELSE IF formatted = <<>> \/ Strip(formatted) = <<>>
             THEN failure(credreq \o <<"blogs.get">>)
        ELSE IF title = <<>> \/ Strip(title) = <<>>
             THEN failure(credreq \o <<"blogs.get">>)
        ELSE IF ~env.insert
             THEN failure(credreq \o <<"blogs.get", "posts.insert">>)
        ELSE [ok |-> TRUE, net |-> credreq \o <<"blogs.get", "posts.insert">>,
              submitted |-> Truncate(formatted)]

\* main(): the title, the content and the image handed to post_to_blogger
\* for a scraped item (also the record kept in failed_posts)
MakePost(news) ==
    [title |-> news.title,
     content |-> DoubleNewlines(<<"Published on ", FormatDate(news.date), NL, NL>>
                                \o news.full_content),
     image_url |-> news.image_url]

\* ------------------------------------------------------------------------
\* State
\* ------------------------------------------------------------------------
VARIABLES
    run,                  \* number of runs of main() started so far
    pc,                   \* position of the running main()
    ledger,               \* news_log.json
    digest,               \* README.md
    failed_file,          \* failed_posts.json
    site,                 \* the articles the listing page shows
    oracle,               \* the outside world as far as it is fixed in advance:
                          \* for an article n in its domain, oracle[n] is the number
                          \* of the submission of n in a run (1 = first pass, 2.. =
                          \* retries) that finds the network and the platform
                          \* working, 0 when none does; the submissions of other
                          \* articles may go either way
    news_items,           \* main: fetch_news()
    logged_posts,         \* main: read_log()
    new_news,             \* main
    i,                    \* main: position in new_news (1-based)
    successful_posts,     \* main
    failed_posts,         \* main
    new_posted_articles,  \* main
    r_failed,             \* retry_failed_posts: failed_posts
    still_failed,         \* retry_failed_posts
    j,                    \* retry_failed_posts: position in failed_posts (1-based)
    attempt,              \* retry_failed_posts
    successful_retries,   \* retry_failed_posts
    calls,                \* the calls of post_to_blogger made by this run
    net,                  \* network requests of the post_to_blogger call that has
                          \* just returned
    unslept               \* calls of post_to_blogger since the last time.sleep (0..2)

vars == <<run, pc, ledger, digest, failed_file, site, oracle, news_items, logged_posts,
          new_news, i, successful_posts, failed_posts, new_posted_articles,
          r_failed, still_failed, j, attempt, successful_retries, calls, net, unslept>>

files == <<ledger, digest, failed_file>>

main_locals == <<news_items, logged_posts, new_news, i, successful_posts,
                 failed_posts, new_posted_articles>>

retry_locals == <<r_failed, still_failed, j, attempt, successful_retries>>

\* ------------------------------------------------------------------------
\* Initial states
\* ------------------------------------------------------------------------
\* an entry as main() builds it; post ids are <<run, number of the post in
\* the run>>, date_posted is the run
Entry(news, post_id, date_posted) ==
    [url |-> news.link, title |-> news.title, post_id |-> post_id,
     date_posted |-> date_posted]

\* ledgers left by earlier use: empty (no file) or one posted article
InitLedgers == {<<>>, <<Entry(ItemA, <<0, 1>>, 0)>>}

InitDigest == <<STATIC_START, "intro", STATIC_END, NL, "old">>

NoOracle == [n \in {} |-> 0]

\* the behaviours of the outside world towards the articles of a listing
Oracles(listing) == [Range(listing) -> 0..(1 + max_retries)]

InitLocals ==
    /\ news_items = <<>>
    /\ logged_posts = <<>>
    /\ new_news = <<>>
    /\ i = 1
    /\ successful_posts = 0
    /\ failed_posts = <<>>
    /\ new_posted_articles = <<>>
    /\ r_failed = <<>>
    /\ still_failed = <<>>
    /\ j = 1
    /\ attempt = 0
    /\ successful_retries = 0
    /\ calls = <<>>
    /\ net = <<>>
    /\ unslept = 0

Init ==
    /\ run = 0
    /\ pc = "idle"
    /\ ledger \in InitLedgers
    /\ digest = InitDigest
    /\ failed_file = <<>>
    /\ site = <<>>
    /\ oracle = NoOracle
    /\ InitLocals

\* ------------------------------------------------------------------------
\* main()
\* ------------------------------------------------------------------------
ConfigErrors == {"no_credentials_file", "no_blog_id", "no_creds", "no_blog_access"}

\* a new process: the locals of the previous run are gone
FreshLocals ==
    /\ i' = 1
    /\ successful_posts' = 0
    /\ failed_posts' = <<>>
    /\ new_posted_articles' = <<>>
    /\ r_failed' = <<>>
    /\ still_failed' = <<>>
    /\ j' = 1
    /\ attempt' = 0
    /\ successful_retries' = 0
    /\ calls' = <<>>
    /\ net' = <<>>
    /\ unslept' = 0

\* main() returning at one of its configuration checks, before any work
AbortRun(err) ==
    /\ pc \in {"idle", "done", "aborted"}
    /\ run < MaxRuns
    /\ run' = run + 1
    /\ pc' = "aborted"
    /\ news_items' = <<>>
    /\ logged_posts' = <<>>
    /\ new_news' = <<>>
    /\ FreshLocals
    /\ UNCHANGED <<files, site, oracle>>

\* main() up to the first call of post_to_blogger: the configuration checks
\* pass, then fetch_news, read_log and the filter
StartRun(listing) ==
    /\ pc \in {"idle", "done", "aborted"}
    /\ run < MaxRuns
    /\ run' = run + 1
    /\ site' = listing
    /\ news_items' = listing
    /\ logged_posts' = ledger
    /\ new_news' = FilterNew(listing, ledger)
    /\ pc' = IF FilterNew(listing, ledger) # <<>> THEN "post" ELSE "done"
    /\ FreshLocals
    /\ UNCHANGED <<files, oracle>>

\* the post id of the next successful publish of this run
NextPostId == <<run, Cardinality({k \in 1..Len(calls) : calls[k].post_id # None}) + 1>>

\* (mutant) the result of post_to_blogger not tested
Truthy_Always(post_id) == TRUE

\* "if post_id:"
Truthy(post_id) == post_id # None

\* the outside world lets a submission through iff the platform accepts it
Healthy(env) == env.creds # "fail" /\ env.access /\ env.insert

Allowed(env, news, submission) ==
    news \in DOMAIN oracle => (Healthy(env) <=> oracle[news] = submission)

\* (mutant) the first pass stops at the first item that fails
FirstPassNext_StopOnFailure(post_id, k, n) ==
    IF post_id = None THEN "log" ELSE IF k < n THEN "sleep10" ELSE "log"

\* main(): "for i, news in enumerate(new_news)" goes on to the next item (and
\* its sleep) whatever post_to_blogger returned for item k of n
FirstPassNext(post_id, k, n) == IF k < n THEN "sleep10" ELSE "log"

\* main(): one iteration of the first pass, from the call of post_to_blogger
Post(env) ==
    /\ pc = "post"
    /\ LET news   == new_news[i]
           post   == MakePost(news)
           result == post_to_blogger(post.title, post.content, post.image_url, env)
           post_id == IF result.ok THEN NextPostId ELSE None
       IN  /\ Allowed(env, news, 1)
           /\ calls' = Append(calls, [post |-> post, post_id |-> post_id,
                                      submitted |-> result.submitted])
           /\ net' = result.net
           /\ unslept' = IF unslept < 2 THEN unslept + 1 ELSE 2
           /\ IF Truthy(post_id)
              THEN /\ successful_posts' = successful_posts + 1
                   /\ new_posted_articles' =
                          Append(new_posted_articles, Entry(news, post_id, run))
                   /\ failed_posts' = failed_posts
              ELSE /\ failed_posts' = Append(failed_posts, post)
                   /\ UNCHANGED <<successful_posts, new_posted_articles>>
    /\ i' = i + 1
    /\ pc' = FirstPassNext(calls'[Len(calls')].post_id, i, Len(new_news))
    /\ UNCHANGED <<run, files, site, oracle, news_items, logged_posts, new_news, retry_locals>>

\* main(): time.sleep(10) at the head of the iterations after the first
Sleep10 ==
    /\ pc = "sleep10"
    /\ unslept' = 0
    /\ pc' = "post"
    /\ net' = <<>>
    /\ UNCHANGED <<run, files, site, oracle, main_locals, retry_locals, calls>>

\* main(): after the first pass, update_log and update_news_md when something
\* was posted, then the retry of the failed posts when there are any
UpdateFiles ==
    /\ pc = "log"
    /\ IF new_posted_articles # <<>>
       THEN /\ ledger' = update_log(ledger, new_posted_articles)
            /\ digest' = update_news_md(digest, new_news)
       ELSE UNCHANGED <<ledger, digest>>
    /\ IF failed_posts # <<>>
       THEN /\ r_failed' = failed_posts
            /\ successful_retries' = 0
            /\ attempt' = 0
            /\ pc' = "retry_attempt"
       ELSE /\ UNCHANGED <<r_failed, successful_retries, attempt>>
            /\ pc' = "done"
    /\ net' = <<>>
    /\ UNCHANGED <<run, failed_file, site, oracle, main_locals, still_failed, j, calls, unslept>>

\* ------------------------------------------------------------------------
\* retry_failed_posts(failed_posts, max_retries)
\* ------------------------------------------------------------------------
\* the article a failed post was made from
ItemOf(post) == CHOOSE n \in Universe : MakePost(n) = post

\* (mutant) one attempt too many
InRange_OffByOne(a) == a <= max_retries

\* "for attempt in range(max_retries)": there is another attempt
InRange(a) == a < max_retries

\* head of "for attempt in range(max_retries)" with the first break
RetryAttempt ==
    /\ pc = "retry_attempt"
    /\ IF InRange(attempt) /\ r_failed # <<>>
       THEN /\ still_failed' = <<>>
            /\ j' = 1
            /\ pc' = "retry_post"
       ELSE /\ UNCHANGED <<still_failed, j>>
            /\ pc' = "retry_return"
    /\ net' = <<>>
    /\ UNCHANGED <<run, files, site, oracle, main_locals, r_failed, attempt,
                   successful_retries, calls, unslept>>

\* one iteration of "for post in failed_posts"
RetryPost(env) ==
    /\ pc = "retry_post"
    /\ LET post   == r_failed[j]
           result == post_to_blogger(post.title, post.content, post.image_url, env)
           post_id == IF result.ok THEN NextPostId ELSE None
       IN  /\ Allowed(env, ItemOf(post), attempt + 2)
           /\ calls' = Append(calls, [post |-> post, post_id |-> post_id,
                                      submitted |-> result.submitted])
           /\ net' = result.net
           /\ unslept' = IF unslept < 2 THEN unslept + 1 ELSE 2
           /\ IF Truthy(post_id)
              THEN /\ successful_retries' = successful_retries + 1
                   /\ still_failed' = still_failed
              ELSE /\ still_failed' = Append(still_failed, post)
                   /\ successful_retries' = successful_retries
    /\ j' = j + 1
    /\ pc' = IF j < Len(r_failed) THEN "retry_post" ELSE "retry_end"
    /\ UNCHANGED <<run, files, site, oracle, main_locals, r_failed, attempt>>

\* (mutant) the posts that succeeded stay in the failed set
NextFailed_KeepAll(failed, still) == failed

\* "failed_posts = still_failed": the set the next attempt goes through
NextFailed(failed, still) == still

\* (mutant) a wait after every attempt that leaves failed posts
WaitsBeforeNext_Always(a) == TRUE

\* "if attempt < max_retries - 1": the attempt is not the last one
WaitsBeforeNext(a) == a < max_retries - 1

\* the end of an attempt: failed_posts = still_failed, the second break, and
\* the wait before the next attempt
RetryAttemptEnd ==
    /\ pc = "retry_end"
    /\ r_failed' = NextFailed(r_failed, still_failed)
    /\ IF still_failed = <<>>
       THEN /\ pc' = "retry_return"
            /\ attempt' = attempt
       ELSE IF WaitsBeforeNext(attempt)
       THEN /\ pc' = "sleep30"
            /\ attempt' = attempt
       ELSE /\ pc' = "retry_attempt"
            /\ attempt' = attempt + 1
    /\ net' = <<>>
    /\ UNCHANGED <<run, files, site, oracle, main_locals, still_failed, j,
                   successful_retries, calls, unslept>>

\* time.sleep(30), then the next attempt
Sleep30 ==
    /\ pc = "sleep30"
    /\ unslept' = 0
    /\ attempt' = attempt + 1
    /\ pc' = "retry_attempt"
    /\ net' = <<>>
    /\ UNCHANGED <<run, files, site, oracle, main_locals, r_failed, still_failed, j,
                   successful_retries, calls>>

\* main(): the return of retry_failed_posts, the final statistics and
\* failed_posts.json
FinishRetry ==
    /\ pc = "retry_return"
    /\ successful_posts' = successful_posts + successful_retries
    /\ failed_file' = IF r_failed # <<>> THEN r_failed ELSE failed_file
    /\ pc' = "done"
    /\ UNCHANGED <<run, ledger, digest, site, oracle, news_items, logged_posts, new_news, i,
                   failed_posts, new_posted_articles, retry_locals, calls, unslept>>
    /\ net' = <<>>

\* ------------------------------------------------------------------------
\* Specifications
\* ------------------------------------------------------------------------
Steps ==
    \/ \E env \in Envs : Post(env)
    \/ Sleep10
    \/ UpdateFiles
    \/ RetryAttempt
    \/ \E env \in Envs : RetryPost(env)
    \/ RetryAttemptEnd
    \/ Sleep30
    \/ FinishRetry

\* any sequence of runs: each run meets its own listing, and every call of
\* post_to_blogger may succeed or fail
Next ==
    \/ \E err \in ConfigErrors : AbortRun(err)
    \/ \E listing \in Listings : StartRun(listing)
    \/ Steps

Spec == Init /\ [][Next]_vars

\* runs in a row that meet the same listing and the same behaviour of the
\* outside world (and pass the configuration checks)
InitIdem ==
    /\ run = 0
    /\ pc = "idle"
    /\ ledger \in InitLedgers
    /\ digest = InitDigest
    /\ failed_file = <<>>
    /\ site \in Listings
    /\ oracle \in Oracles(site)
    /\ InitLocals

NextIdem ==
    \/ StartRun(site)
    \/ Steps

SpecIdem == InitIdem /\ [][NextIdem]_vars

\* update_news_md on its own: any README.md of at most MaxDocLen tokens, any
\* non-empty list of new items
DocTokens == {STATIC_START, STATIC_END, NL, SP, "old"}

Docs == SeqsUpTo(DocTokens, MaxDocLen)

InitDigestOnly ==
    /\ run = 0
    /\ pc = "digest"
    /\ ledger = <<>>
    /\ digest \in Docs
    /\ failed_file = <<>>
    /\ site = <<>>
    /\ oracle = NoOracle
    /\ InitLocals

UpdateNewsMd(items) ==
    /\ pc = "digest"
    /\ new_news' = items
    /\ digest' = update_news_md(digest, items)
    /\ pc' = "digest_written"
    /\ UNCHANGED <<run, ledger, failed_file, site, oracle, news_items, logged_posts, i,
                   successful_posts, failed_posts, new_posted_articles, retry_locals,
                   calls, net, unslept>>

NextDigest == \E items \in Listings \ {<<>>} : UpdateNewsMd(items)

SpecDigest == InitDigestOnly /\ [][NextDigest]_vars

\* ------------------------------------------------------------------------
\* post_to_blogger alone, called once with any of the titles, images and
\* contents below: contents of a few characters, and contents whose formatted
\* text is up to MaxOver characters under, exactly at, or over the size limit
\* ------------------------------------------------------------------------
PublishTitles == {<<"a">>, <<SP>>}

PublishImages == {None, <<"img1">>}

PublishContents ==
    {<<>>, <<"w1">>}
    \cup {<<Run(n)>> : n \in RunLengths}
    \cup {<<"w1", NL, NL, Run(n)>> : n \in RunLengths}

InitPublish ==
    /\ run = 0
    /\ pc = "publish"
    /\ ledger = <<>>
    /\ digest = InitDigest
    /\ failed_file = <<>>
    /\ site = <<>>
    /\ oracle = NoOracle
    /\ InitLocals

PublishOnce(title, content, image_url, env) ==
    /\ pc = "publish"
    /\ LET result == post_to_blogger(title, content, image_url, env)
       IN  /\ calls' = <<[post |-> [title |-> title, content |-> content,
                                    image_url |-> image_url],
                          post_id |-> IF result.ok THEN NextPostId ELSE None,
                          submitted |-> result.submitted]>>
           /\ net' = result.net
    /\ unslept' = 1
    /\ pc' = "published"
    /\ UNCHANGED <<run, files, site, oracle, main_locals, retry_locals>>

NextPublish ==
    \E title \in PublishTitles, content \in PublishContents,
       image_url \in PublishImages, env \in Envs :
        PublishOnce(title, content, image_url, env)

SpecPublish == InitPublish /\ [][NextPublish]_vars

\* ------------------------------------------------------------------------
\* Properties
\* ------------------------------------------------------------------------
IsPrefix(p, q) == Len(p) <= Len(q) /\ SubSeq(q, 1, Len(p)) = p

RunPcs == {"post", "sleep10", "log", "retry_attempt", "retry_post", "retry_end",
           "sleep30", "retry_return", "done"}

RetryPcs == {"retry_attempt", "retry_post", "retry_end", "sleep30", "retry_return"}

\* the calls of post_to_blogger that returned a post id
Published == {k \in 1..Len(calls) : calls[k].post_id # None}

\* the article a call was made for
CallItem(k) == ItemOf(calls[k].post)

\* the calls made by retry_failed_posts (the first pass makes one per new item)
RetryCallsOf(post) == {k \in (Len(new_news) + 1)..Len(calls) : calls[k].post = post}

C2_PublishedIsRecorded ==
    pc = "done" =>
        \A k \in Published :
            /\ \E e \in 1..Len(ledger) :
                  \/ ledger[e].url = CallItem(k).link
                  \/ ledger[e].title = CallItem(k).title
            /\ Contains(digest, Section(CallItem(k)))

\* C3: the filter keeps exactly the fetched items for which the log read at
\* the start has no entry with the same url and no entry with the same title
\* (in listing order), and post_to_blogger is called for kept items only.
NoUrlNoTitleInLog(news) ==
    /\ \A e \in 1..Len(logged_posts) : logged_posts[e].url # news.link
    /\ \A e \in 1..Len(logged_posts) : logged_posts[e].title # news.title

C3_OnlyNewArePublished ==
    pc \in RunPcs =>
        /\ new_news = SelectSeq(news_items, NoUrlNoTitleInLog)
        /\ \A k \in 1..Len(calls) : \E n \in Range(new_news) : MakePost(n) = calls[k].post

\* a fetched item that matches the log on the title alone was dropped, and
\* another item of the listing was submitted
C3_Witness ==
    /\ pc \in RunPcs
    /\ calls # <<>>
    /\ \E n \in Range(news_items) :
          /\ \E e \in 1..Len(logged_posts) : logged_posts[e].title = n.title
          /\ \A e \in 1..Len(logged_posts) : logged_posts[e].url # n.link
          /\ n \notin Range(new_news)

\* C4: no two entries of the ledger have the same url, and no two have the
\* same title.
C4_LedgerKeysUnique ==
    \A e1, e2 \in 1..Len(ledger) :
        e1 # e2 => (ledger[e1].url # ledger[e2].url /\ ledger[e1].title # ledger[e2].title)

\* update_log was given two posts that collide on the url or on the title
C4_Witness ==
    /\ pc = "done"
    /\ Len(new_posted_articles) = 2
    /\ \/ new_posted_articles[1].url = new_posted_articles[2].url
       \/ new_posted_articles[1].title = new_posted_articles[2].title
    /\ Len(ledger) = Len(logged_posts) + 1

\* C5: at every point of a run the ledger is the log read at the start
\* followed by entries that each carry the post id a call of post_to_blogger
\* of this run returned, and the url and title of the new item that call was
\* made for.
C5_EntriesOnlyForPublished ==
    pc \in RunPcs =>
        /\ IsPrefix(logged_posts, ledger)
        /\ \A e \in (Len(logged_posts) + 1)..Len(ledger) :
              \E k \in Published :
                  /\ ledger[e].post_id = calls[k].post_id
                  /\ \E n \in Range(new_news) :
                        /\ MakePost(n) = calls[k].post
                        /\ ledger[e].url = n.link
                        /\ ledger[e].title = n.title

\* a run that logged one item while another of its items had failed
C5_Witness ==
    /\ pc = "done"
    /\ Len(ledger) > Len(logged_posts)
    /\ failed_posts # <<>>

\* C6: no step removes, rewrites or reorders an entry of the ledger: the
\* ledger before a step is a prefix of the ledger after it.
C6_LedgerAppendOnly == [][IsPrefix(ledger, ledger')]_vars

\* update_log has added to a ledger that had entries
C6_Witness ==
    /\ pc = "log" \/ pc = "done"
    /\ logged_posts # <<>>
    /\ Len(ledger) > Len(logged_posts)

\* C7: retry_failed_posts runs at most max_retries attempts (no post is
\* retried more than max_retries times), and when it returns the count of
\* successes and the still-failed list partition its input: the list is the
\* input without the posts a retry succeeded for, in the same order.
NeverSucceeded(post) == \A k \in RetryCallsOf(post) : calls[k].post_id = None

C7_RetryBoundedPartition ==
    pc \in RetryPcs =>
        /\ attempt <= max_retries
        /\ \A p \in Range(failed_posts) : Cardinality(RetryCallsOf(p)) <= max_retries
        /\ pc = "retry_return" =>
              /\ successful_retries + Len(r_failed) = Len(failed_posts)
              /\ r_failed = SelectSeq(failed_posts, NeverSucceeded)

\* retry_failed_posts returns after its last attempt with one post retried
\* successfully and one still failed
C7_Witness ==
    /\ pc = "retry_return"
    /\ attempt = max_retries
    /\ successful_retries = 1
    /\ Len(r_failed) = 1

\* C8: a call of post_to_blogger with a title that is empty or blank returns
\* None without having made a network request.
C8_BlankTitleNoNetwork ==
    (calls # <<>> /\ Strip(calls[Len(calls)].post.title) = <<>>) =>
        (calls[Len(calls)].post_id = None /\ net = <<>>)

\* a document "static prefix, STATIC-END, dynamic content": the start marker
\* comes before the first end marker
FirstIndex(doc, token) == CHOOSE k \in 1..Len(doc) :
                              doc[k] = token /\ \A m \in 1..(k - 1) : doc[m] # token

HasStaticPrefix(doc) ==
    /\ STATIC_START \in Range(doc)
    /\ STATIC_END \in Range(doc)
    /\ FirstIndex(doc, STATIC_START) < FirstIndex(doc, STATIC_END)

StaticPrefix(doc) == SubSeq(doc, 1, FirstIndex(doc, STATIC_END))

DynamicContent(doc) == SubSeq(doc, FirstIndex(doc, STATIC_END) + 1, Len(doc))

\* the line break update_news_md puts before and after the new sections
Separators == {<<>>, <<NL>>}

\* C9: update_news_md with one new item turns a document with a static
\* prefix into: the prefix up to and including STATIC-END, the item's
\* section, the original dynamic content with nothing dropped or altered
\* (stated here up to a line break before and after the section and up to
\* the white space around the dynamic content).
C9_DynamicContentKept ==
    [][(pc = "digest" /\ HasStaticPrefix(digest) /\ Len(new_news') = 1) =>
          \E sep1, sep2 \in Separators :
              digest' = StaticPrefix(digest) \o sep1 \o Section(new_news'[1])
                        \o sep2 \o Strip(DynamicContent(digest))]_vars

\* C10: update_news_md turns a document without the marker pair into the
\* sections of the new items followed by the whole previous document (stated
\* here up to a line break before and after the sections and up to the white
\* space around the previous document).
C10_UnmarkedDocumentKept ==
    [][(pc = "digest" /\ ~(STATIC_START \in Range(digest) /\ STATIC_END \in Range(digest))) =>
          \E sep1, sep2 \in Separators :
              digest' = sep1 \o format_news_to_markdown(new_news') \o sep2
                        \o Strip(digest)]_vars

\* C11: when a run has ended, the digest has a section only for candidates a
\* call of post_to_blogger succeeded for in that run: a new item every call
\* failed for (first pass and retries) has no section in the digest.
C11_SectionsOnlyForPublished ==
    pc = "done" =>
        \A n \in Range(new_news) :
            Contains(digest, Section(n)) => \E k \in Published : CallItem(k) = n

\* p is the first CharLen(p) characters of q
RECURSIVE IsCharPrefix(_, _)
IsCharPrefix(p, q) ==
    IF p = <<>> THEN TRUE
    ELSE IF q = <<>> THEN FALSE
    ELSE IF Head(p) = Head(q) THEN IsCharPrefix(Tail(p), Tail(q))
    ELSE /\ Len(p) = 1
         /\ Head(p) \in RunTokens
         /\ Head(q) \in RunTokens
         /\ Width(Head(p)) <= Width(Head(q))

\* the body of a post after formatting, before the size check
Formatted(post) == FormatContent(post.title, post.content, post.image_url)

\* C12: post_to_blogger submits a formatted content longer than the size
\* limit cut to exactly the limit (its first content_limit characters), and
\* a formatted content at or below the limit unchanged; with a valid title
\* and a working platform the call succeeds whatever the size.
C12_TruncatedToLimit ==
    pc = "published" =>
        LET post == calls[1].post
            Sent(body) == IF CharLen(Formatted(post)) > content_limit
                          THEN /\ CharLen(body) = content_limit
                               /\ IsCharPrefix(body, Formatted(post))
                          ELSE body = Formatted(post)
        IN  /\ calls[1].post_id # None => Sent(calls[1].submitted)
            /\ \A env \in Envs :
                  (Healthy(env) /\ Strip(post.title) # <<>>) =>
                      LET result == post_to_blogger(post.title, post.content,
                                                    post.image_url, env)
                      IN  result.ok /\ Sent(result.submitted)

\* a post whose formatted content is over the limit was submitted
C12_Witness ==
    /\ pc = "published"
    /\ calls[1].post_id # None
    /\ CharLen(Formatted(calls[1].post)) > content_limit
    /\ calls[1].submitted # Formatted(calls[1].post)

\* C13: a sleep separates any two consecutive calls of post_to_blogger of a
\* run (first pass, retries within one attempt, retries of different
\* attempts): at no point have two calls been made since the last sleep.
C13_SleepBetweenCalls == unslept <= 1

\* C14: a failed call does not end the first pass: post_to_blogger returns
\* None (it does not raise) when the credentials, the blog access or the
\* insert request fail, and the first pass calls it once for every new item,
\* in listing order, whatever the earlier calls returned.
C14_FailureDoesNotAbortBatch ==
    pc \in RunPcs =>
        /\ IF pc \in {"post", "sleep10"}
           THEN Len(calls) = i - 1 /\ i <= Len(new_news)
           ELSE Len(calls) >= Len(new_news)
        /\ \A k \in 1..Len(new_news) :
              k <= Len(calls) => calls[k].post = MakePost(new_news[k])
        /\ \A n \in Range(new_news), env \in Envs :
              LET result == post_to_blogger(MakePost(n).title, MakePost(n).content,
                                            MakePost(n).image_url, env)
              IN  ~Healthy(env) => (~result.ok /\ result.submitted = None)

\* the first pass has ended: the call for the first of two new items failed
\* and the call for the second was made
C14_Witness ==
    /\ pc = "log"
    /\ Len(new_news) = 2
    /\ Len(calls) = 2
    /\ calls[1].post_id = None
    /\ calls[2].post = MakePost(new_news[2])

\* the calls made for a post in this run, first pass and retries
CallsOf(post) == {k \in 1..Len(calls) : calls[k].post = post}

\* C15: a retry attempt calls post_to_blogger once for each post of the
\* failed set, in order, and for nothing else; a post a call succeeded for is
\* not in the set of any later attempt and is never submitted again; all
\* posts still failed have been retried the same number of times (one
\* attempt counter); no post is submitted more than 1 + max_retries times in
\* a run.
C15_RetryOncePerFailedItem ==
    pc \in RunPcs =>
        /\ \A k \in 1..Len(calls) :
              /\ Cardinality(CallsOf(calls[k].post)) <= 1 + max_retries
              /\ \A m \in 1..(k - 1) :
                    calls[m].post = calls[k].post => calls[m].post_id = None
        /\ pc \in {"retry_post", "retry_end"} =>
              /\ Len(calls) - (j - 1) >= Len(new_news)
              /\ \A m \in 1..(j - 1) :
                    calls[Len(calls) - (j - 1) + m].post = r_failed[m]
              /\ \A m \in j..Len(r_failed) :
                    /\ \A k \in CallsOf(r_failed[m]) : calls[k].post_id = None
                    /\ Cardinality(RetryCallsOf(r_failed[m])) = attempt
              /\ \A m \in 1..Len(still_failed) :
                    Cardinality(RetryCallsOf(still_failed[m])) = attempt + 1
        /\ pc = "retry_end" => j - 1 = Len(r_failed)

\* the second attempt has retried the one post the first attempt left, the
\* other failed post having succeeded in the first attempt
C15_Witness ==
    /\ pc = "retry_end"
    /\ attempt = 1
    /\ Len(failed_posts) = 2
    /\ Len(r_failed) = 1
    /\ Len(calls) = Len(new_news) + 3

\* C16: retry_failed_posts sleeps after an attempt only when that attempt
\* left failed posts and was not the last of the max_retries attempts; when
\* it returns (the failed set is empty, or the last attempt has ended) no
\* sleep has followed its last call of post_to_blogger.
C16_SleepOnlyBetweenAttempts ==
    /\ pc = "sleep30" => (r_failed # <<>> /\ attempt + 1 < max_retries)
    /\ pc = "retry_return" => unslept >= 1

\* retry_failed_posts returns after its last attempt with two posts still
\* failed
C16_Witness ==
    /\ pc = "retry_return"
    /\ attempt = max_retries
    /\ Len(r_failed) = 2

\* a run of main() with the listing of the run that has just ended starts
SameListingAgain ==
    /\ pc = "done"
    /\ run' = run + 1
    /\ pc' \in {"post", "done"}
    /\ news_items' = news_items

\* the ledger has an entry with the url or with the title of the item
MatchesLedger(news) ==
    \E e \in 1..Len(ledger) : ledger[e].url = news.link \/ ledger[e].title = news.title

\* what the return of retry_failed_posts leaves in the files: failed_posts.json
\* is the posts no retry succeeded for when there are any (and is left as it
\* was otherwise), and this run has added no ledger entry for their items
ExhaustedAreFiled ==
    (pc = "retry_return" /\ pc' = "done") =>
        /\ failed_file' = IF r_failed # <<>>
                          THEN SelectSeq(failed_posts, NeverSucceeded)
                          ELSE failed_file
        /\ \A m \in 1..Len(r_failed) :
              \A e \in (Len(logged_posts) + 1)..Len(ledger') :
                  ~(/\ ledger'[e].url = ItemOf(r_failed[m]).link
                    /\ ledger'[e].title = ItemOf(r_failed[m]).title)

C18_ExhaustedDoNotBlockLedger ==
    (pc = "done" /\ r_failed # <<>>) =>
        \A k \in Published : MatchesLedger(CallItem(k))

\* the first-pass calls that returned a post id
FirstPassPublished == {k \in Published : k <= Len(new_news)}

====
